---------------------------- MODULE Spec2Model ----------------------------
(***************************************************************************)
(* NewsBrief (src/App.tsx): the playback position tracker, the speculative *)
(* briefing cache, the standard generation pipeline and the history list.  *)
(*                                                                         *)
(* Units.  Time is counted in ticks of the audio clock                     *)
(* (AudioContext.currentTime advances one render quantum at a time).       *)
(* Playback rates are in tenths (1.0x = 10), so buffer offsets and buffer  *)
(* durations are in tenths of a tick and elapsed * rate is exact.          *)
(*                                                                         *)
(* Content.  A briefing (script, sources, audio buffer, image) is named by *)
(* the number of the task that produced it: 1..NumCategories for the       *)
(* background task of a category, NumCategories + g for the g-th call of   *)
(* performGeneration.  0 stands for '', [] and null.                       *)
(***************************************************************************)
EXTENDS Integers, Sequences, FiniteSets, TLC

\* ------------------------------------------------------------ bounds
NumCategories == 2      \* categories modelled (QUICK_CATEGORIES has 6)
MaxGens == 2            \* calls of performGeneration that pass validation
MaxTime == 4            \* ticks of the clock
MaxDetached == 1        \* started sources no longer held by sourceNodeRef
MaxStamp == 2           \* distinct later values of Date.now()

\* ------------------------------------------------------------ constants
RateMin == 5            \* slider min="0.5"
RateMax == 20           \* slider max="2.0"
RateDefault == 10       \* useState<number>(1.0)
DurShort == 20          \* duration of an odd-numbered buffer
DurLong == 40           \* duration of an even-numbered buffer

Rates == {RateMin, RateDefault, RateMax}
Categories == 1..NumCategories
Gens == 1..MaxGens
GenBriefing(g) == NumCategories + g

\* AudioBuffer.duration of the buffer decoded for briefing b
Duration(b) == IF b % 2 = 1 THEN DurShort ELSE DurLong

VARIABLES
    isAuthenticated,        \* "null" | "true" | "false"
    articles,               \* "blank" | "topic": whether some topic is non-blank
    appState,
    summary, sources, imageUrl,
    playbackRate,
    errorMessage,           \* "null" | "validation" | "failure"
    cache,                  \* category -> CachedBriefing, or Absent
    history,                \* sequence of HistoryItem, newest first
    audioContextRef,        \* BOOLEAN: audioContextRef.current is set
    sourceNodeRef,          \* the AudioBufferSourceNode held, or NoNode
    audioBufferRef,         \* briefing whose buffer is active, 0 = null
    savedBufferOffsetRef,
    segmentStartTimeRef,
    currentTime,            \* AudioContext.currentTime
    dateNow,                \* Date.now()
    detached,               \* started sources that sourceNodeRef no longer holds
    gens,                   \* g -> the g-th performGeneration call
    prefetch,               \* category -> its background task
    imageSettled            \* tasks whose image call settled while their speech call ran

vars == << isAuthenticated, articles, appState, summary, sources, imageUrl,
           playbackRate, errorMessage, cache, history, audioContextRef,
           sourceNodeRef, audioBufferRef, savedBufferOffsetRef,
           segmentStartTimeRef, currentTime, dateNow, detached, gens, prefetch,
           imageSettled >>

uiVars == << summary, sources, imageUrl, errorMessage, articles >>
audioVars == << audioContextRef, sourceNodeRef, audioBufferRef,
                savedBufferOffsetRef, segmentStartTimeRef, detached >>
taskVars == << gens, prefetch, dateNow, imageSettled >>

\* ------------------------------------------------------------ audio nodes
\* An AudioBufferSourceNode: state is "playing" after start(), "finished" once
\* the playhead has reached the end of the buffer and the ended event is
\* queued, "ended" once that event has been dispatched, "stopped" after stop().
NoNode == [buffer |-> 0, rate |-> 0, pos |-> 0, state |-> "none", onended |-> FALSE]

\* A source is live when it has been started and has neither been stopped nor ended.
Live(n) == n.state = "playing"

\* One render quantum of a node: the playhead advances by playbackRate.value.
Advance(n) ==
    IF n.state # "playing" THEN n
    ELSE LET p == n.pos + n.rate
             end == Duration(n.buffer)
         IN  [n EXCEPT !.pos = IF p >= end THEN end ELSE p,
                       !.state = IF p >= end THEN "finished" ELSE "playing"]

\* source.start(0, offset) throws a RangeError for a negative offset; an offset
\* at or beyond the end of the buffer is accepted and the node finishes at once.
StartThrows(offset) == offset < 0

Started(b, rate, offset) ==
    [buffer |-> b, rate |-> rate,
     pos |-> IF offset >= Duration(b) THEN Duration(b) ELSE offset,
     state |-> IF offset >= Duration(b) THEN "finished" ELSE "playing",
     onended |-> FALSE]

\* A node the program no longer references still plays, and still runs its
\* onended handler, until it ends.
StillActive(n) == n.state = "playing" \/ (n.state = "finished" /\ n.onended)

Max(a, b) == IF a >= b THEN a ELSE b

\* ------------------------------------------------------------ records
Absent == [status |-> "absent", summary |-> 0, sources |-> 0, audioBuffer |-> 0,
           imageUrl |-> 0, timestamp |-> 0]

NoTask == [pc |-> "none"]

\* id of the entry of a fresh generation: Date.now().toString()
FreshId(t) == << 0, 0, t >>
\* id of the entry of a cache hit: `${categoryLabel}-${cachedData.timestamp}`
CachedId(c, t) == << 1, c, t >>

HistoryItem(id, b, img) ==
    [id |-> id, summary |-> b, sources |-> b, imageUrl |-> img, audioBuffer |-> b]

\* ------------------------------------------------------------ initial state
Init ==
    /\ isAuthenticated = "null"
    /\ articles = "blank"
    /\ appState = "IDLE"
    /\ summary = 0 /\ sources = 0 /\ imageUrl = 0
    /\ playbackRate = RateDefault
    /\ errorMessage = "null"
    /\ cache = [c \in Categories |-> Absent]
    /\ history = << >>
    /\ audioContextRef = FALSE
    /\ sourceNodeRef = NoNode
    /\ audioBufferRef = 0
    /\ savedBufferOffsetRef = 0
    /\ segmentStartTimeRef = 0
    /\ currentTime = 0
    /\ dateNow = 0
    /\ detached = {}
    /\ gens = [g \in Gens |-> NoTask]
    /\ prefetch = [c \in Categories |-> NoTask]
    /\ imageSettled = {}

\* ------------------------------------------------------------ playback tracker
\* commitProgress adding the elapsed wall-clock time unscaled (as at rate 1.0).
commitProgressUnscaled(rate) ==
    IF audioContextRef
    THEN [offset |-> savedBufferOffsetRef + (currentTime - segmentStartTimeRef) * RateDefault,
          start  |-> currentTime]
    ELSE [offset |-> savedBufferOffsetRef, start |-> segmentStartTimeRef]

\* commitProgress: the offset and the segment start it leaves.
commitProgress(rate) ==
    IF audioContextRef
    THEN [offset |-> savedBufferOffsetRef + (currentTime - segmentStartTimeRef) * rate,
          start  |-> currentTime]
    ELSE [offset |-> savedBufferOffsetRef, start |-> segmentStartTimeRef]

\* The Play button (READY): playAudio.
playAudio ==
    /\ isAuthenticated = "true"
    /\ appState = "READY"
    /\ audioBufferRef # 0 /\ audioContextRef
    /\ LET startOffset == Max(0, savedBufferOffsetRef)
           throws == StartThrows(startOffset)
           source == Started(audioBufferRef, playbackRate,
                             IF throws THEN 0 ELSE startOffset)
           old == IF StillActive(sourceNodeRef) THEN {sourceNodeRef} ELSE {}
       IN  /\ Cardinality(detached \cup old) <= MaxDetached
           /\ detached' = detached \cup old
           /\ savedBufferOffsetRef' = IF throws THEN 0 ELSE savedBufferOffsetRef
           /\ segmentStartTimeRef' = currentTime
           /\ sourceNodeRef' = [source EXCEPT !.onended = TRUE]
           /\ appState' = "PLAYING"
    /\ UNCHANGED << isAuthenticated, uiVars, playbackRate, cache, history,
                    audioContextRef, audioBufferRef, currentTime, taskVars >>

\* What pauseAudio does to the refs (it is also called by loadHistoryItem).
Paused ==
    IF sourceNodeRef.state # "none" /\ audioContextRef
    THEN [offset |-> commitProgress(playbackRate).offset,
          start  |-> commitProgress(playbackRate).start,
          node   |-> [sourceNodeRef EXCEPT !.onended = FALSE, !.state = "stopped"],
          ready  |-> TRUE]
    ELSE [offset |-> savedBufferOffsetRef, start |-> segmentStartTimeRef,
          node   |-> sourceNodeRef, ready |-> FALSE]

\* The Pause button (PLAYING): pauseAudio.
pauseAudio ==
    /\ isAuthenticated = "true"
    /\ appState = "PLAYING"
    /\ savedBufferOffsetRef' = Paused.offset
    /\ segmentStartTimeRef' = Paused.start
    /\ sourceNodeRef' = Paused.node
    /\ appState' = IF Paused.ready THEN "READY" ELSE appState
    /\ UNCHANGED << isAuthenticated, uiVars, playbackRate, cache, history,
                    audioContextRef, audioBufferRef, currentTime, detached, taskVars >>

\* handleRateChange committing the elapsed time at the new rate.
RateToCommitNew(newRate) == newRate

\* The rate commitProgress is given by handleRateChange.
RateToCommit(newRate) == playbackRate

\* handleRateChange committing whenever a node exists, playing or not.
RateChangeCommitsAlways == sourceNodeRef.state # "none"

\* Whether handleRateChange commits and retunes the node.
RateChangeCommits == appState = "PLAYING" /\ sourceNodeRef.state # "none"

\* The speed slider (READY/PLAYING panel): handleRateChange.
handleRateChange(newRate) ==
    /\ isAuthenticated = "true"
    /\ appState \in {"READY", "PLAYING"}
    /\ newRate # playbackRate
    /\ IF RateChangeCommits
       THEN /\ savedBufferOffsetRef' = commitProgress(RateToCommit(newRate)).offset
            /\ segmentStartTimeRef' = commitProgress(RateToCommit(newRate)).start
            /\ sourceNodeRef' = [sourceNodeRef EXCEPT !.rate = newRate]
       ELSE UNCHANGED << savedBufferOffsetRef, segmentStartTimeRef, sourceNodeRef >>
    /\ playbackRate' = newRate
    /\ UNCHANGED << isAuthenticated, uiVars, appState, cache, history,
                    audioContextRef, audioBufferRef, currentTime, detached, taskVars >>

\* An ended handler that shows READY but leaves the saved offset as it is.
onendedKeepsOffset ==
    /\ sourceNodeRef.state = "finished" /\ sourceNodeRef.onended
    /\ sourceNodeRef' = [sourceNodeRef EXCEPT !.state = "ended"]
    /\ appState' = "READY"
    /\ UNCHANGED << isAuthenticated, uiVars, playbackRate, cache, history,
                    audioContextRef, audioBufferRef, savedBufferOffsetRef,
                    segmentStartTimeRef, currentTime, detached, taskVars >>

\* The ended event of the node sourceNodeRef holds: source.onended.
onendedCurrent ==
    /\ sourceNodeRef.state = "finished" /\ sourceNodeRef.onended
    /\ sourceNodeRef' = [sourceNodeRef EXCEPT !.state = "ended"]
    /\ appState' = "READY"
    /\ savedBufferOffsetRef' = 0
    /\ UNCHANGED << isAuthenticated, uiVars, playbackRate, cache, history,
                    audioContextRef, audioBufferRef, segmentStartTimeRef,
                    currentTime, detached, taskVars >>

\* The ended event of a node that sourceNodeRef no longer holds: the same handler.
onendedDetached ==
    \E n \in detached :
        /\ n.state = "finished" /\ n.onended
        /\ detached' = detached \ {n}
        /\ appState' = "READY"
        /\ savedBufferOffsetRef' = 0
        /\ UNCHANGED << isAuthenticated, uiVars, playbackRate, cache, history,
                        audioContextRef, audioBufferRef, segmentStartTimeRef,
                        currentTime, sourceNodeRef, taskVars >>

\* One render quantum: the clock and every playing node advance.  The program
\* reads the clock only as a difference taken while a node it started plays, so
\* quanta in which no node plays are not modelled.
Tick ==
    /\ currentTime < MaxTime
    /\ Live(sourceNodeRef) \/ \E n \in detached : Live(n)
    /\ currentTime' = currentTime + 1
    /\ sourceNodeRef' = Advance(sourceNodeRef)
    /\ detached' = { Advance(n) : n \in detached }
    /\ UNCHANGED << isAuthenticated, uiVars, appState, playbackRate, cache, history,
                    audioContextRef, audioBufferRef, savedBufferOffsetRef,
                    segmentStartTimeRef, taskVars >>

\* ------------------------------------------------------------ history
\* A test that compares the id with the newest entry only (a repeated click).
InHistoryNewest(id) == Len(history) > 0 /\ history[1].id = id

\* prev.find(i => i.id === item.id)
InHistory(id) == \E i \in 1..Len(history) : history[i].id = id

\* addToHistory without the test for an existing id.
addToHistoryAlways(item) == << item >> \o history

\* addToHistory: the history it leaves.
addToHistory(item) ==
    IF InHistory(item.id) THEN history ELSE << item >> \o history

\* filter(i => i.id !== id)
RECURSIVE Without(_, _)
Without(h, id) ==
    IF h = << >> THEN << >>
    ELSE IF Head(h).id = id THEN Without(Tail(h), id)
         ELSE << Head(h) >> \o Without(Tail(h), id)

\* The trash button of a history entry: deleteHistoryItem.
deleteHistoryItem ==
    /\ isAuthenticated = "true"
    /\ \E i \in 1..Len(history) : history' = Without(history, history[i].id)
    /\ UNCHANGED << isAuthenticated, uiVars, appState, playbackRate, cache,
                    audioVars, currentTime, taskVars >>

\* loadHistoryItem activating the entry's buffer without rewinding the offset.
loadHistoryItemKeepsOffset ==
    /\ isAuthenticated = "true"
    /\ \E i \in 1..Len(history) :
        LET item == history[i]
            p == IF appState = "PLAYING" THEN Paused
                 ELSE [offset |-> savedBufferOffsetRef, start |-> segmentStartTimeRef,
                       node |-> sourceNodeRef, ready |-> FALSE]
        IN  /\ sourceNodeRef' = p.node
            /\ segmentStartTimeRef' = p.start
            /\ audioContextRef' = TRUE
            /\ summary' = item.summary
            /\ sources' = item.sources
            /\ imageUrl' = item.imageUrl
            /\ audioBufferRef' = item.audioBuffer
            /\ savedBufferOffsetRef' = p.offset
            /\ articles' = "topic"
            /\ appState' = "READY"
    /\ UNCHANGED << isAuthenticated, playbackRate, errorMessage, cache, history,
                    currentTime, detached, taskVars >>

\* A click on a history entry (the sidebar opens in every appState): loadHistoryItem.
loadHistoryItem ==
    /\ isAuthenticated = "true"
    /\ \E i \in 1..Len(history) :
        LET item == history[i]
            p == IF appState = "PLAYING" THEN Paused
                 ELSE [offset |-> savedBufferOffsetRef, start |-> segmentStartTimeRef,
                       node |-> sourceNodeRef, ready |-> FALSE]
        IN  /\ sourceNodeRef' = p.node
            /\ segmentStartTimeRef' = p.start
            /\ audioContextRef' = TRUE
            /\ summary' = item.summary
            /\ sources' = item.sources
            /\ imageUrl' = item.imageUrl
            /\ audioBufferRef' = item.audioBuffer
            /\ savedBufferOffsetRef' = 0
            /\ articles' = "topic"
            /\ appState' = "READY"
    /\ UNCHANGED << isAuthenticated, playbackRate, errorMessage, cache, history,
                    currentTime, detached, taskVars >>

\* The Edit button (READY/PLAYING panel): reset.
reset ==
    /\ isAuthenticated = "true"
    /\ appState \in {"READY", "PLAYING"}
    /\ sourceNodeRef' = IF sourceNodeRef.state # "none"
                        THEN [sourceNodeRef EXCEPT !.onended = FALSE, !.state = "stopped"]
                        ELSE sourceNodeRef
    /\ appState' = "IDLE"
    /\ summary' = 0 /\ sources' = 0 /\ imageUrl' = 0
    /\ audioBufferRef' = 0
    /\ savedBufferOffsetRef' = 0
    /\ UNCHANGED << isAuthenticated, articles, errorMessage, playbackRate, cache,
                    history, audioContextRef, segmentStartTimeRef, currentTime,
                    detached, taskVars >>

\* The close button of the error banner: setErrorMessage(null).
dismissError ==
    /\ isAuthenticated = "true"
    /\ errorMessage # "null"
    /\ errorMessage' = "null"
    /\ UNCHANGED << isAuthenticated, articles, summary, sources, imageUrl, appState,
                    playbackRate, cache, history, audioVars, currentTime, taskVars >>

\* Typing in a topic field (enabled in IDLE only): updateArticle.
updateArticle ==
    /\ isAuthenticated = "true"
    /\ appState = "IDLE"
    /\ articles' = IF articles = "blank" THEN "topic" ELSE "blank"
    /\ UNCHANGED << isAuthenticated, summary, sources, imageUrl, errorMessage, appState,
                    playbackRate, cache, history, audioVars, currentTime, taskVars >>

\* The values of Date.now() the program has stored.
Stamped ==
    { history[i].id[3] : i \in 1..Len(history) }
        \cup { cache[c].timestamp : c \in { d \in Categories : cache[d].status # "absent" } }

\* ------------------------------------------------------------ generation pipeline
\* The next call of performGeneration that passes validation.
NextGen == CHOOSE g \in Gens : gens[g].pc = "none" /\ \A h \in 1..(g - 1) : gens[h].pc # "none"
CanStart == \E g \in Gens : gens[g].pc = "none"

\* performGeneration up to its first await, for topics that pass validation:
\* the script request is issued.  The remote calls of a generation take more
\* than a millisecond, so every value of Date.now() stored before it started is
\* in the past when its results arrive.
StartGeneration ==
    /\ CanStart
    /\ dateNow' = IF dateNow \in Stamped THEN dateNow + 1 ELSE dateNow
    /\ audioContextRef' = TRUE
    /\ errorMessage' = "null"
    /\ appState' = "SUMMARIZING"
    /\ summary' = 0 /\ sources' = 0 /\ imageUrl' = 0
    /\ gens' = [gens EXCEPT ![NextGen] = [pc |-> "script"]]

\* performGeneration without the test for a non-blank topic.
handleGenerateUnvalidated ==
    /\ isAuthenticated = "true"
    /\ appState = "IDLE"
    /\ StartGeneration
    /\ UNCHANGED << isAuthenticated, articles, playbackRate, cache, history,
                    sourceNodeRef, audioBufferRef, savedBufferOffsetRef,
                    segmentStartTimeRef, detached, currentTime, prefetch,
                    imageSettled >>

\* The Generate button (enabled in IDLE only): handleGenerate -> performGeneration.
handleGenerate ==
    /\ isAuthenticated = "true"
    /\ appState = "IDLE"
    /\ IF articles = "blank"
       THEN /\ audioContextRef' = TRUE
            /\ errorMessage' = "validation"
            /\ UNCHANGED << appState, summary, sources, imageUrl, gens, dateNow >>
       ELSE StartGeneration
    /\ UNCHANGED << isAuthenticated, articles, playbackRate, cache, history,
                    sourceNodeRef, audioBufferRef, savedBufferOffsetRef,
                    segmentStartTimeRef, detached, currentTime, prefetch,
                    imageSettled >>

\* handleCategorySelect serving an entry only once its image has arrived.
CacheHitNeedsImage(c) ==
    cache[c].status = "ready" /\ cache[c].audioBuffer # 0 /\ cache[c].imageUrl # 0

\* The test of handleCategorySelect for serving the entry of the category.
CacheHit(c) == cache[c].status = "ready" /\ cache[c].audioBuffer # 0

\* handleCategorySelect leaving a pending entry to its background task: it shows
\* the generating state and issues no request of its own.
handleCategorySelectDedup(c) ==
    /\ isAuthenticated = "true"
    /\ appState = "IDLE"
    /\ cache[c].status = "pending"
    /\ articles' = "topic"
    /\ appState' = "SUMMARIZING"
    /\ UNCHANGED << isAuthenticated, summary, sources, imageUrl, errorMessage,
                    playbackRate, cache, history, audioVars, currentTime, taskVars >>

\* A category card (enabled in IDLE only): handleCategorySelect.
handleCategorySelect(c) ==
    /\ isAuthenticated = "true"
    /\ appState = "IDLE"
    /\ articles' = "topic"
    /\ IF CacheHit(c)
       THEN /\ audioContextRef' = TRUE
            /\ summary' = cache[c].summary
            /\ sources' = cache[c].sources
            /\ imageUrl' = cache[c].imageUrl
            /\ audioBufferRef' = cache[c].audioBuffer
            /\ savedBufferOffsetRef' = 0
            /\ history' = addToHistory(
                   [id |-> CachedId(c, cache[c].timestamp),
                    summary |-> cache[c].summary, sources |-> cache[c].sources,
                    imageUrl |-> cache[c].imageUrl, audioBuffer |-> cache[c].audioBuffer])
            /\ appState' = "READY"
            /\ UNCHANGED << errorMessage, gens, dateNow >>
       ELSE /\ StartGeneration
            /\ UNCHANGED << history, audioBufferRef, savedBufferOffsetRef >>
    /\ UNCHANGED << isAuthenticated, playbackRate, cache, sourceNodeRef,
                    segmentStartTimeRef, detached, currentTime, prefetch,
                    imageSettled >>

\* generateBriefingScript resolves: the speech and image requests are issued.
GenScriptOk(g) ==
    /\ gens[g].pc = "script"
    /\ summary' = GenBriefing(g)
    /\ sources' = GenBriefing(g)
    /\ appState' = "SYNTHESIZING"
    /\ gens' = [gens EXCEPT ![g] = [pc |-> "speech"]]
    /\ UNCHANGED << isAuthenticated, articles, imageUrl, errorMessage, playbackRate,
                    cache, history, audioVars, currentTime, prefetch, dateNow,
                    imageSettled >>

\* A catch block that reports the message but leaves appState as it is.
GenCatchNoState(g) ==
    /\ errorMessage' = "failure"
    /\ gens' = [gens EXCEPT ![g].pc = "failed"]
    /\ UNCHANGED << isAuthenticated, articles, summary, sources, imageUrl, playbackRate,
                    appState, cache, history, audioVars, currentTime, prefetch, dateNow,
                    imageSettled >>

\* The catch block of performGeneration.
GenCatch(g) ==
    /\ errorMessage' = "failure"
    /\ appState' = "ERROR"
    /\ gens' = [gens EXCEPT ![g].pc = "failed"]
    /\ UNCHANGED << isAuthenticated, articles, summary, sources, imageUrl, playbackRate,
                    cache, history, audioVars, currentTime, prefetch, dateNow,
                    imageSettled >>

\* generateBriefingScript rejects.
GenScriptFail(g) == gens[g].pc = "script" /\ GenCatch(g)

\* generateSpeech rejects (no audio payload, or the request fails).
GenSpeechFail(g) == gens[g].pc = "speech" /\ GenCatch(g)

\* A pipeline that stores the buffer when the speech resolves but leaves the
\* move to READY to the image callback.
GenSpeechOkAwaitsImage(g) ==
    /\ gens[g].pc = "speech"
    /\ audioBufferRef' = GenBriefing(g)
    /\ savedBufferOffsetRef' = 0
    /\ gens' = [gens EXCEPT ![g].pc = "image"]
    /\ UNCHANGED << isAuthenticated, uiVars, appState, playbackRate, cache, history,
                    audioContextRef, sourceNodeRef, segmentStartTimeRef, detached,
                    currentTime, prefetch, dateNow,
                    imageSettled >>

\* generateSpeech resolves: the buffer becomes the active buffer.
GenSpeechOk(g) ==
    /\ gens[g].pc = "speech"
    /\ audioBufferRef' = GenBriefing(g)
    /\ savedBufferOffsetRef' = 0
    /\ appState' = "READY"
    /\ gens' = [gens EXCEPT ![g].pc = "image"]
    /\ UNCHANGED << isAuthenticated, uiVars, playbackRate, cache, history,
                    audioContextRef, sourceNodeRef, segmentStartTimeRef, detached,
                    currentTime, prefetch, dateNow,
                    imageSettled >>

\* Names of the tasks in imageSettled.
GenTask(g) == << "gen", g >>
PrefetchTask(c) == << "prefetch", c >>

\* A pipeline that requests the image only once the speech has resolved: the
\* image call cannot settle while the speech call runs.
GenImageSettlesAfterSpeech(g) ==
    /\ gens[g].pc = "image"
    /\ GenTask(g) \notin imageSettled
    /\ imageSettled' = imageSettled \cup {GenTask(g)}
    /\ UNCHANGED << isAuthenticated, uiVars, appState, playbackRate, cache, history,
                    audioVars, currentTime, gens, prefetch, dateNow >>

\* generateCoverImage of a generation settles while generateSpeech is still
\* running: both requests were issued together when the script resolved.  (A
\* settlement after the speech has resolved is part of GenImageThen.)
GenImageSettles(g) ==
    /\ gens[g].pc = "speech"
    /\ GenTask(g) \notin imageSettled
    /\ imageSettled' = imageSettled \cup {GenTask(g)}
    /\ UNCHANGED << isAuthenticated, uiVars, appState, playbackRate, cache, history,
                    audioVars, currentTime, gens, prefetch, dateNow >>

\* What generateCoverImage settles with: a data URI, or null (no image part in
\* the response, or a failure it catches).
ImageResults == {"url", "null"}
ImageOf(b, r) == IF r = "url" THEN b ELSE 0

\* imagePromise.then of performGeneration, run once the audio has been awaited and
\* generateCoverImage has settled with r.
GenImageThen(g, r) ==
    /\ gens[g].pc = "image"
    /\ imageUrl' = ImageOf(GenBriefing(g), r)
    /\ history' = addToHistory(HistoryItem(FreshId(dateNow), GenBriefing(g),
                                           ImageOf(GenBriefing(g), r)))
    /\ gens' = [gens EXCEPT ![g].pc = "done"]
    /\ UNCHANGED << isAuthenticated, articles, summary, sources, errorMessage, appState,
                    playbackRate, cache, audioVars, currentTime, prefetch, dateNow,
                    imageSettled >>

\* ------------------------------------------------------------ speculative cache
\* The pre-fetch effect, run when isAuthenticated becomes true: every category's
\* entry is written pending and its script request is issued.
startPreFetching ==
    /\ cache' = [c \in Categories |->
                    [status |-> "pending", summary |-> 0, sources |-> 0,
                     audioBuffer |-> 0, imageUrl |-> 0, timestamp |-> dateNow]]
    /\ prefetch' = [c \in Categories |-> [pc |-> "script"]]

\* The auth check effect: checkAuth.
checkAuth ==
    /\ isAuthenticated = "null"
    /\ \E hasKey \in BOOLEAN :
        IF hasKey
        THEN isAuthenticated' = "true" /\ startPreFetching
        ELSE isAuthenticated' = "false" /\ UNCHANGED << cache, prefetch >>
    /\ UNCHANGED << uiVars, appState, playbackRate, history, audioVars,
                    currentTime, gens, dateNow,
                    imageSettled >>

\* The login screen's button: handleLogin.
handleLogin ==
    /\ isAuthenticated = "false"
    /\ \E hasKey \in BOOLEAN :
        IF hasKey
        THEN isAuthenticated' = "true" /\ startPreFetching
        ELSE UNCHANGED << isAuthenticated, cache, prefetch >>
    /\ UNCHANGED << uiVars, appState, playbackRate, history, audioVars,
                    currentTime, gens, dateNow,
                    imageSettled >>

\* generateBriefingScript of a background task resolves.
PrefetchScriptOk(c) ==
    /\ prefetch[c].pc = "script"
    /\ prefetch' = [prefetch EXCEPT ![c] = [pc |-> "speech"]]
    /\ UNCHANGED << isAuthenticated, uiVars, appState, playbackRate, cache, history,
                    audioVars, currentTime, gens, dateNow,
                    imageSettled >>

\* generateCoverImage of a background task settles while generateSpeech is
\* still running.
PrefetchImageSettles(c) ==
    /\ prefetch[c].pc = "speech"
    /\ PrefetchTask(c) \notin imageSettled
    /\ imageSettled' = imageSettled \cup {PrefetchTask(c)}
    /\ UNCHANGED << isAuthenticated, uiVars, appState, playbackRate, cache, history,
                    audioVars, currentTime, gens, prefetch, dateNow >>

\* A ready update that stores no audio buffer.
ReadyEntryNoAudio(c) ==
    [status |-> "ready", summary |-> c, sources |-> c, audioBuffer |-> 0,
     imageUrl |-> 0, timestamp |-> dateNow]

\* The entry written once the audio of a background task has resolved.
ReadyEntry(c) ==
    [status |-> "ready", summary |-> c, sources |-> c, audioBuffer |-> c,
     imageUrl |-> 0, timestamp |-> dateNow]

\* A ready update built on the cache captured when the effect ran (an empty
\* record) instead of on the previous state: the other entries are lost.
PrefetchSpeechOkStale(c) ==
    /\ prefetch[c].pc = "speech"
    /\ cache' = [d \in Categories |-> IF d = c THEN ReadyEntry(c) ELSE Absent]
    /\ prefetch' = [prefetch EXCEPT ![c].pc = "image"]
    /\ UNCHANGED << isAuthenticated, uiVars, appState, playbackRate, history,
                    audioVars, currentTime, gens, dateNow,
                    imageSettled >>

\* generateSpeech of a background task resolves.
PrefetchSpeechOk(c) ==
    /\ prefetch[c].pc = "speech"
    /\ cache' = [cache EXCEPT ![c] = ReadyEntry(c)]
    /\ prefetch' = [prefetch EXCEPT ![c].pc = "image"]
    /\ UNCHANGED << isAuthenticated, uiVars, appState, playbackRate, history,
                    audioVars, currentTime, gens, dateNow,
                    imageSettled >>

\* A catch block that also covers the image callback of a background task.
PrefetchFailAnytime(c) ==
    /\ prefetch[c].pc \in {"script", "speech", "image"}
    /\ cache' = [cache EXCEPT ![c].status = "error"]
    /\ prefetch' = [prefetch EXCEPT ![c].pc = "error"]
    /\ UNCHANGED << isAuthenticated, uiVars, appState, playbackRate, history,
                    audioVars, currentTime, gens, dateNow,
                    imageSettled >>

\* The catch block of a background task (script or speech rejected).
PrefetchFail(c) ==
    /\ prefetch[c].pc \in {"script", "speech"}
    /\ cache' = [cache EXCEPT ![c].status = "error"]
    /\ prefetch' = [prefetch EXCEPT ![c].pc = "error"]
    /\ UNCHANGED << isAuthenticated, uiVars, appState, playbackRate, history,
                    audioVars, currentTime, gens, dateNow,
                    imageSettled >>

\* The image update rewriting the entry as a new one, as the ready update does.
WithImageRewritten(entry, img) ==
    [entry EXCEPT !.imageUrl = img, !.timestamp = dateNow]

\* The entry after the image of a background task has been attached.
WithImage(entry, img) == [entry EXCEPT !.imageUrl = img]

\* imagePromise.then of a background task, run once the audio has been awaited and
\* generateCoverImage has settled with r.
PrefetchImageThen(c, r) ==
    /\ prefetch[c].pc = "image"
    /\ cache' = [cache EXCEPT ![c] = WithImage(cache[c], ImageOf(c, r))]
    /\ prefetch' = [prefetch EXCEPT ![c].pc = "done"]
    /\ UNCHANGED << isAuthenticated, uiVars, appState, playbackRate, history,
                    audioVars, currentTime, gens, dateNow,
                    imageSettled >>

\* ------------------------------------------------------------ wall clock
\* A millisecond passes.  The program only stores and compares the values of
\* Date.now(), so the clock is advanced only past a value that has been stored.
MsPasses ==
    /\ dateNow \in Stamped
    /\ dateNow < MaxStamp
    /\ dateNow' = dateNow + 1
    /\ UNCHANGED << isAuthenticated, uiVars, appState, playbackRate, cache, history,
                    audioVars, currentTime, gens, prefetch,
                    imageSettled >>

\* ------------------------------------------------------------ specifications
Next ==
    \/ checkAuth
    \/ handleLogin
    \/ updateArticle
    \/ handleGenerate
    \/ \E c \in Categories : handleCategorySelect(c)
    \/ \E g \in Gens : GenScriptOk(g)
    \/ \E g \in Gens : GenScriptFail(g)
    \/ \E g \in Gens : GenSpeechOk(g)
    \/ \E g \in Gens : GenSpeechFail(g)
    \/ \E g \in Gens, r \in ImageResults : GenImageThen(g, r)
    \/ \E c \in Categories : PrefetchScriptOk(c)
    \/ \E c \in Categories : PrefetchSpeechOk(c)
    \/ \E c \in Categories : PrefetchFail(c)
    \/ \E c \in Categories, r \in ImageResults : PrefetchImageThen(c, r)
    \/ \E g \in Gens : GenImageSettles(g)
    \/ \E c \in Categories : PrefetchImageSettles(c)
    \/ loadHistoryItem
    \/ deleteHistoryItem
    \/ dismissError
    \/ playAudio
    \/ pauseAudio
    \/ \E r \in Rates : handleRateChange(r)
    \/ reset
    \/ onendedCurrent
    \/ onendedDetached
    \/ Tick
    \/ MsPasses

\* The whole application, from construction.
Spec == Init /\ [][Next]_vars

\* The state Spec reaches by checkAuth and, for every category, PrefetchScriptOk,
\* PrefetchSpeechOk and PrefetchImageThen with an image: every entry is ready.
InitPlayback ==
    /\ isAuthenticated = "true"
    /\ articles = "blank"
    /\ appState = "IDLE"
    /\ summary = 0 /\ sources = 0 /\ imageUrl = 0
    /\ playbackRate = RateDefault
    /\ errorMessage = "null"
    /\ cache = [c \in Categories |->
                   [status |-> "ready", summary |-> c, sources |-> c, audioBuffer |-> c,
                    imageUrl |-> c, timestamp |-> 0]]
    /\ history = << >>
    /\ audioContextRef = FALSE
    /\ sourceNodeRef = NoNode
    /\ audioBufferRef = 0
    /\ savedBufferOffsetRef = 0
    /\ segmentStartTimeRef = 0
    /\ currentTime = 0
    /\ dateNow = 0
    /\ detached = {}
    /\ gens = [g \in Gens |-> NoTask]
    /\ prefetch = [c \in Categories |-> [pc |-> "done"]]
    /\ imageSettled = {}

\* The player: buffers activated from the cache and from the history, and the
\* transport controls, with no generation in flight.
NextPlayback ==
    \/ \E c \in Categories : handleCategorySelect(c)
    \/ loadHistoryItem
    \/ playAudio
    \/ pauseAudio
    \/ \E r \in Rates : handleRateChange(r)
    \/ reset
    \/ onendedCurrent
    \/ Tick

SpecPlayback == InitPlayback /\ [][NextPlayback]_vars

\* The state Spec reaches by checkAuth and PrefetchFail of every category: every
\* entry is in error, so a category card starts a standard generation.
InitGen ==
    /\ isAuthenticated = "true"
    /\ articles = "blank"
    /\ appState = "IDLE"
    /\ summary = 0 /\ sources = 0 /\ imageUrl = 0
    /\ playbackRate = RateDefault
    /\ errorMessage = "null"
    /\ cache = [c \in Categories |-> [Absent EXCEPT !.status = "error"]]
    /\ history = << >>
    /\ audioContextRef = FALSE
    /\ sourceNodeRef = NoNode
    /\ audioBufferRef = 0
    /\ savedBufferOffsetRef = 0
    /\ segmentStartTimeRef = 0
    /\ currentTime = 0
    /\ dateNow = 0
    /\ detached = {}
    /\ gens = [g \in Gens |-> NoTask]
    /\ prefetch = [c \in Categories |-> [pc |-> "error"]]
    /\ imageSettled = {}

\* Standard generation, the history and the Play, Pause and Edit buttons, with
\* generations left in flight by the user (no background task is running).
NextGeneration ==
    \/ updateArticle
    \/ handleGenerate
    \/ \E c \in Categories : handleCategorySelect(c)
    \/ \E g \in Gens : GenScriptOk(g)
    \/ \E g \in Gens : GenScriptFail(g)
    \/ \E g \in Gens : GenSpeechOk(g)
    \/ \E g \in Gens : GenSpeechFail(g)
    \/ \E g \in Gens, r \in ImageResults : GenImageThen(g, r)
    \/ loadHistoryItem
    \/ deleteHistoryItem
    \/ dismissError
    \/ playAudio
    \/ pauseAudio
    \/ reset
    \/ MsPasses

SpecGen == InitGen /\ [][NextGeneration]_vars

\* The speculative cache: authentication, the background tasks and the category
\* cards.  A card that misses issues the script request of a standard
\* generation; the rest of that generation is followed in SpecGen.
NextCache ==
    \/ checkAuth
    \/ handleLogin
    \/ \E c \in Categories : PrefetchScriptOk(c)
    \/ \E c \in Categories : PrefetchSpeechOk(c)
    \/ \E c \in Categories : PrefetchFail(c)
    \/ \E c \in Categories, r \in ImageResults : PrefetchImageThen(c, r)
    \/ \E c \in Categories : handleCategorySelect(c)
    \/ reset
    \/ MsPasses

SpecCache == Init /\ [][NextCache]_vars

\* The history list: entries added by cache hits and by fresh generations, and
\* deleted by the user, while the briefings are activated and edited.
NextHistory ==
    \/ \E c \in Categories : handleCategorySelect(c)
    \/ handleGenerate
    \/ \E g \in Gens : GenScriptOk(g)
    \/ \E g \in Gens : GenSpeechOk(g)
    \/ \E g \in Gens, r \in ImageResults : GenImageThen(g, r)
    \/ deleteHistoryItem
    \/ reset
    \/ MsPasses

SpecHistory == InitPlayback /\ [][NextHistory]_vars

\* The state Spec reaches by checkAuth with a key: every entry is pending and
\* every background task waits for its script.
InitPending ==
    /\ isAuthenticated = "true"
    /\ articles = "blank"
    /\ appState = "IDLE"
    /\ summary = 0 /\ sources = 0 /\ imageUrl = 0
    /\ playbackRate = RateDefault
    /\ errorMessage = "null"
    /\ cache = [c \in Categories |-> [Absent EXCEPT !.status = "pending"]]
    /\ history = << >>
    /\ audioContextRef = FALSE
    /\ sourceNodeRef = NoNode
    /\ audioBufferRef = 0
    /\ savedBufferOffsetRef = 0
    /\ segmentStartTimeRef = 0
    /\ currentTime = 0
    /\ dateNow = 0
    /\ detached = {}
    /\ gens = [g \in Gens |-> NoTask]
    /\ prefetch = [c \in Categories |-> [pc |-> "script"]]
    /\ imageSettled = {}

\* A category card pressed while the background tasks run: the tasks and the
\* generation the card starts proceed side by side, up to the briefing the
\* card leads to.
NextPending ==
    \/ \E c \in Categories : handleCategorySelect(c)
    \/ \E c \in Categories : PrefetchScriptOk(c)
    \/ \E c \in Categories : PrefetchSpeechOk(c)
    \/ \E c \in Categories : PrefetchFail(c)
    \/ \E c \in Categories, r \in ImageResults : PrefetchImageThen(c, r)
    \/ \E g \in Gens : GenScriptOk(g)
    \/ \E g \in Gens : GenScriptFail(g)
    \/ \E g \in Gens : GenSpeechOk(g)
    \/ \E g \in Gens : GenSpeechFail(g)
    \/ \E g \in Gens, r \in ImageResults : GenImageThen(g, r)

\* The remote calls of a generation return: a script or speech request that
\* has been issued is eventually resolved or rejected.
CallsReturn ==
    \A g \in Gens :
        /\ WF_vars(GenScriptOk(g) \/ GenScriptFail(g))
        /\ WF_vars(GenSpeechOk(g) \/ GenSpeechFail(g))

SpecPending == InitPending /\ [][NextPending]_vars /\ CallsReturn

\* Playback while generations are in flight: the generation pipeline, the
\* history and the transport controls, with the audio clock running.
NextOverlap ==
    \/ handleGenerate
    \/ \E c \in Categories : handleCategorySelect(c)
    \/ \E g \in Gens : GenScriptOk(g)
    \/ \E g \in Gens : GenScriptFail(g)
    \/ \E g \in Gens : GenSpeechOk(g)
    \/ \E g \in Gens : GenSpeechFail(g)
    \/ \E g \in Gens, r \in ImageResults : GenImageThen(g, r)
    \/ loadHistoryItem
    \/ playAudio
    \/ pauseAudio
    \/ reset
    \/ onendedCurrent
    \/ onendedDetached
    \/ Tick

SpecOverlap == InitGen /\ [][NextOverlap]_vars

\* The state Spec reaches by checkAuth, the completion of the background task of
\* category 1 with an image and PrefetchFail of every other category: the card
\* of category 1 hits, the other cards start a standard generation.
InitActivate ==
    /\ isAuthenticated = "true"
    /\ articles = "blank"
    /\ appState = "IDLE"
    /\ summary = 0 /\ sources = 0 /\ imageUrl = 0
    /\ playbackRate = RateDefault
    /\ errorMessage = "null"
    /\ cache = [c \in Categories |->
                   IF c = 1
                   THEN [status |-> "ready", summary |-> c, sources |-> c,
                         audioBuffer |-> c, imageUrl |-> c, timestamp |-> 0]
                   ELSE [Absent EXCEPT !.status = "error"]]
    /\ history = << >>
    /\ audioContextRef = FALSE
    /\ sourceNodeRef = NoNode
    /\ audioBufferRef = 0
    /\ savedBufferOffsetRef = 0
    /\ segmentStartTimeRef = 0
    /\ currentTime = 0
    /\ dateNow = 0
    /\ detached = {}
    /\ gens = [g \in Gens |-> NoTask]
    /\ prefetch = [c \in Categories |-> [pc |-> IF c = 1 THEN "done" ELSE "error"]]
    /\ imageSettled = {}

\* Every way a buffer becomes the active one (a cache hit, the audio of a
\* generation, the history) with the transport controls and the audio clock.
NextActivate ==
    \/ \E c \in Categories : handleCategorySelect(c)
    \/ \E g \in Gens : GenScriptOk(g)
    \/ \E g \in Gens : GenSpeechOk(g)
    \/ loadHistoryItem
    \/ playAudio
    \/ pauseAudio
    \/ reset
    \/ onendedCurrent
    \/ onendedDetached
    \/ Tick

SpecActivate == InitActivate /\ [][NextActivate]_vars

\* The remote calls of the background tasks and of a user's generation, with
\* the image calls settling before or after the speech calls.
NextRequests ==
    \/ \E c \in Categories : handleCategorySelect(c)
    \/ \E c \in Categories : PrefetchScriptOk(c)
    \/ \E c \in Categories : PrefetchSpeechOk(c)
    \/ \E c \in Categories : PrefetchFail(c)
    \/ \E c \in Categories : PrefetchImageSettles(c)
    \/ \E c \in Categories, r \in ImageResults : PrefetchImageThen(c, r)
    \/ \E g \in Gens : GenScriptOk(g)
    \/ \E g \in Gens : GenScriptFail(g)
    \/ \E g \in Gens : GenSpeechOk(g)
    \/ \E g \in Gens : GenSpeechFail(g)
    \/ \E g \in Gens : GenImageSettles(g)
    \/ \E g \in Gens, r \in ImageResults : GenImageThen(g, r)

SpecRequests == InitPending /\ [][NextRequests]_vars

\* ------------------------------------------------------------ claims: playback
\* C1: in every reachable state the saved offset of the active buffer lies
\* between 0 and the buffer's duration.
C1_OffsetWithinBuffer ==
    audioBufferRef # 0 =>
        /\ 0 <= savedBufferOffsetRef
        /\ savedBufferOffsetRef <= Duration(audioBufferRef)

\* The playhead of the node sourceNodeRef holds has not reached the end of its buffer.
EndNotReached == sourceNodeRef.pos < Duration(sourceNodeRef.buffer)

\* C2: a pause before the end of the buffer leaves savedOffset equal to the
\* playhead of the paused node, which started at the previously saved offset
\* (0 for a newly activated buffer) and advanced by rate * time in every played
\* interval: the sum of r_i * t_i.
C2_PauseYieldsPlayedTime ==
    [][(pauseAudio /\ Live(sourceNodeRef) /\ EndNotReached)
         => savedBufferOffsetRef' = sourceNodeRef.pos]_vars

\* 1 tick at rate 1.0, pause, 1 tick at rate 2.0, pause: savedOffset = 10 + 20.
C2_Witness ==
    /\ appState = "READY"
    /\ sourceNodeRef.state = "stopped"
    /\ sourceNodeRef.rate = RateMax
    /\ sourceNodeRef.pos = RateDefault + RateMax
    /\ savedBufferOffsetRef = RateDefault + RateMax
    /\ segmentStartTimeRef = 2

\* C3: while a node plays, the saved offset plus the time elapsed in the current
\* segment at the live rate is the node's playhead: a rate change has committed
\* the elapsed time at the old rate and restarted the segment, so a pause yields
\* old_rate * t1 + new_rate * t2.
C3_RateChangeCommitsAtOldRate ==
    (appState = "PLAYING" /\ Live(sourceNodeRef)) =>
        /\ sourceNodeRef.rate = playbackRate
        /\ savedBufferOffsetRef + (currentTime - segmentStartTimeRef) * playbackRate
              = sourceNodeRef.pos

\* Playing from offset 0: 1 tick at rate 0.5, a change to rate 2.0 (committing 5
\* and restarting the segment at time 1), then 1 more tick: 5 + 20.
C3_Witness ==
    /\ appState = "PLAYING" /\ Live(sourceNodeRef)
    /\ savedBufferOffsetRef = RateMin
    /\ segmentStartTimeRef = 1 /\ currentTime = 2
    /\ playbackRate = RateMax
    /\ sourceNodeRef.pos = RateMin + RateMax

\* C4: a rate change while the app is not PLAYING changes the stored playback
\* rate and nothing else: the saved offset, the segment start and the node are
\* as before.
C4_RateChangeWhilePaused ==
    [][((\E r \in Rates : handleRateChange(r)) /\ appState # "PLAYING")
         => /\ UNCHANGED << savedBufferOffsetRef, segmentStartTimeRef, sourceNodeRef,
                            appState, audioBufferRef >>
            /\ playbackRate' # playbackRate]_vars

\* After a natural end (offset 0, time has passed since the segment start) the
\* rate was changed: the stored rate differs from the ended node's.
C4_Witness ==
    /\ appState = "READY"
    /\ sourceNodeRef.state = "ended"
    /\ sourceNodeRef.rate # playbackRate
    /\ currentTime > segmentStartTimeRef
    /\ savedBufferOffsetRef = 0

\* ------------------------------------------------------------ claims: cache
\* C5: selecting a category whose entry is ready with an audio buffer starts no
\* generation (no script, speech or image request) and makes the entry's
\* summary, sources, image and buffer the active briefing, READY at offset 0,
\* whether or not the entry's image has arrived.
C5_CacheHitServesEntry ==
    [][\A c \in Categories :
         (handleCategorySelect(c) /\ cache[c].status = "ready" /\ cache[c].audioBuffer # 0)
           => /\ gens' = gens /\ prefetch' = prefetch
              /\ summary' = cache[c].summary
              /\ sources' = cache[c].sources
              /\ imageUrl' = cache[c].imageUrl
              /\ audioBufferRef' = cache[c].audioBuffer
              /\ appState' = "READY"
              /\ savedBufferOffsetRef' = 0]_vars

\* A hit on an entry whose image has not arrived: the briefing is active
\* without an image while the background task still waits for it.
C5_Witness ==
    \E c \in Categories :
        /\ appState = "READY"
        /\ audioBufferRef = c /\ summary = c /\ imageUrl = 0
        /\ cache[c].status = "ready" /\ cache[c].imageUrl = 0
        /\ prefetch[c].pc = "image"
        /\ \A g \in Gens : gens[g].pc = "none"

\* C6: when the image of a ready entry resolves, only that entry's imageUrl
\* changes: its status stays ready, its summary, sources, audioBuffer and
\* timestamp are as before, and no other entry changes.
C6_ImageUpdateIsTargeted ==
    [][\A c \in Categories :
         (\E r \in ImageResults : PrefetchImageThen(c, r))
           => /\ cache[c].status = "ready" /\ cache'[c].status = "ready"
              /\ cache'[c].summary = cache[c].summary
              /\ cache'[c].sources = cache[c].sources
              /\ cache'[c].audioBuffer = cache[c].audioBuffer
              /\ cache'[c].timestamp = cache[c].timestamp
              /\ \A d \in Categories \ {c} : cache'[d] = cache[d]]_vars

\* An entry whose image was attached in a later millisecond than its ready update.
C6_Witness ==
    \E c \in Categories :
        /\ prefetch[c].pc = "done"
        /\ cache[c].status = "ready" /\ cache[c].imageUrl = c
        /\ cache[c].audioBuffer = c
        /\ dateNow > cache[c].timestamp

\* ------------------------------------------------------------ claims: generation
HasEntryFor(h, b) == \E i \in 1..Len(h) : h[i].summary = b

\* C7: a failure of the script call or of the speech call ends the run with
\* appState ERROR and an error message, and the run creates no history entry
\* and activates no audio buffer, then or later.
C7_FailureAbortsRun ==
    /\ [][\A g \in Gens :
            (GenScriptFail(g) \/ GenSpeechFail(g))
              => /\ appState' = "ERROR"
                 /\ errorMessage' # "null"
                 /\ history' = history
                 /\ audioBufferRef' = audioBufferRef]_vars
    /\ [](\A g \in Gens :
            gens[g].pc = "failed"
              => /\ ~HasEntryFor(history, GenBriefing(g))
                 /\ audioBufferRef # GenBriefing(g))

\* The script call succeeded (the summary is shown) and the speech call threw.
C7_Witness ==
    \E g \in Gens :
        /\ gens[g].pc = "failed"
        /\ summary = GenBriefing(g)
        /\ appState = "ERROR" /\ errorMessage = "failure"
        /\ audioBufferRef = 0 /\ history = << >>

\* C8: when the script and speech calls succeed the briefing becomes READY
\* without an error message, and when the image call then yields null a history
\* entry for the briefing is created with imageUrl null.
C8_NullImageStillRecorded ==
    [][\A g \in Gens :
         /\ GenSpeechOk(g) => (appState' = "READY" /\ errorMessage' = errorMessage)
         /\ GenImageThen(g, "null")
              => /\ appState' = appState /\ errorMessage' = errorMessage
                 /\ \E i \in 1..Len(history') :
                        /\ history'[i].summary = GenBriefing(g)
                        /\ history'[i].audioBuffer = GenBriefing(g)
                        /\ history'[i].imageUrl = 0]_vars

\* The user actions that change appState.
UserLeaves(s) ==
    /\ appState = s
    /\ \/ handleGenerate
       \/ \E c \in Categories : handleCategorySelect(c)
       \/ loadHistoryItem
       \/ playAudio
       \/ pauseAudio
       \/ reset
    /\ appState' # s

\* C9: in every ERROR state some user action leads out of ERROR (the first step
\* of a return to IDLE).
C9_ErrorCanBeLeft == appState = "ERROR" => ENABLED UserLeaves("ERROR")

\* C10: at most one started source is live.
LiveSources ==
    (IF Live(sourceNodeRef) THEN 1 ELSE 0)
        + Cardinality({ n \in detached : Live(n) })

C10_OneLiveSource == LiveSources <= 1

\* ------------------------------------------------------------ claims: cache entries
\* C11: the status of a cache entry changes only from absent to pending, from
\* pending to ready and from pending to error: a ready or error entry keeps its
\* status and no entry returns to pending or absent.
C11_EntryStatusMonotonic ==
    [][\A c \in Categories :
         cache'[c].status # cache[c].status
           => << cache[c].status, cache'[c].status >>
                \in { << "absent", "pending" >>, << "pending", "ready" >>,
                      << "pending", "error" >> }]_vars

\* One background task has failed and another has completed with its image.
C11_Witness ==
    \E c, d \in Categories :
        /\ cache[c].status = "error" /\ prefetch[c].pc = "error"
        /\ cache[d].status = "ready" /\ prefetch[d].pc = "done"

\* C12: every ready entry holds an audio buffer; its image may be missing.
C12_ReadyHasAudio ==
    \A c \in Categories : cache[c].status = "ready" => cache[c].audioBuffer # 0

\* A ready entry whose image callback has run with null: audio but no image.
C12_Witness ==
    \E c \in Categories :
        /\ cache[c].status = "ready" /\ prefetch[c].pc = "done"
        /\ cache[c].audioBuffer = c /\ cache[c].imageUrl = 0

\* ------------------------------------------------------------ claims: history
\* The history after an insertion of an item with this id: unchanged when the id
\* occurs in it, else one longer with the item first and the others in order.
InsertedOnce(id) ==
    IF \E i \in 1..Len(history) : history[i].id = id
    THEN history' = history
    ELSE /\ Len(history') = Len(history) + 1
         /\ history'[1].id = id
         /\ \A i \in 1..Len(history) : history'[i + 1] = history[i]

\* C13: addToHistory with an id that already occurs in the history leaves the
\* history as it is; with a new id it puts the item first and keeps the other
\* entries in their order.  Both callers are covered: a cache hit and the image
\* callback of a fresh generation.
C13_AddToHistoryDedups ==
    [][/\ \A c \in Categories :
            (handleCategorySelect(c) /\ cache[c].status = "ready")
              => InsertedOnce(CachedId(c, cache[c].timestamp))
       /\ \A g \in Gens :
            (\E r \in ImageResults : GenImageThen(g, r))
              => InsertedOnce(FreshId(dateNow))]_vars

\* Both categories have been served, and the one served first has been served
\* again: its entry is still the older of the two.
C13_Witness ==
    /\ Len(history) = 2
    /\ history[1].id[1] = 1 /\ history[2].id[1] = 1
    /\ appState = "READY"
    /\ audioBufferRef = history[2].audioBuffer

\* ------------------------------------------------------------ claims: pipeline
\* C14: performGeneration with no non-blank topic reports the validation
\* message and changes nothing else of the briefing: appState, summary,
\* sources, image, active buffer, history and cache are as before and no
\* request is issued.
C14_ValidationChangesNothing ==
    [][(handleGenerate /\ articles = "blank")
         => /\ errorMessage' = "validation"
            /\ UNCHANGED << appState, summary, sources, imageUrl, audioBufferRef,
                            history, cache, gens, prefetch >>]_vars

\* After a completed generation the topics were blanked and Generate pressed.
C14_Witness ==
    /\ errorMessage = "validation"
    /\ appState = "IDLE" /\ articles = "blank"
    /\ Len(history) >= 1
    /\ \E g \in Gens : gens[g].pc = "none"

\* C15: when the speech call of a generation resolves, appState becomes READY
\* and its buffer becomes the active buffer while the image callback is still
\* to run (the step leaves the image as it is); the step needs nothing but the
\* resolved speech call, so the image neither delays nor conditions it.
C15_ReadyOnSpeech ==
    /\ [][\A g \in Gens :
            GenSpeechOk(g)
              => /\ appState' = "READY"
                 /\ audioBufferRef' = GenBriefing(g)
                 /\ imageUrl' = imageUrl
                 /\ gens'[g].pc = "image"]_vars
    /\ [](\A g \in Gens : gens[g].pc = "speech" => ENABLED GenSpeechOk(g))

\* The briefing of a generation is playable and its image callback has not run.
C15_Witness ==
    \E g \in Gens :
        /\ gens[g].pc = "image"
        /\ appState = "READY"
        /\ audioBufferRef = GenBriefing(g) /\ summary = GenBriefing(g)
        /\ imageUrl = 0

\* C16: when a generation or a cache hit has brought its briefing to READY the
\* history holds an entry for that briefing, before the image has resolved.
C16_EntryCreatedAtReady ==
    [][/\ \A g \in Gens :
            GenSpeechOk(g) => HasEntryFor(history', GenBriefing(g))
       /\ \A c \in Categories :
            (handleCategorySelect(c) /\ cache[c].status = "ready")
              => HasEntryFor(history', cache[c].summary)]_vars

\* C17: a category card pressed while the category's entry is pending shows
\* SUMMARIZING and starts a standard generation that issues its own script
\* request while the background task of the category stays in flight; as the
\* remote calls return, appState then becomes READY or ERROR.
C17_PendingFallsThrough ==
    /\ [][\A c \in Categories :
            (handleCategorySelect(c) /\ cache[c].status = "pending")
              => /\ appState' = "SUMMARIZING"
                 /\ gens[NextGen].pc = "none" /\ gens'[NextGen].pc = "script"
                 /\ prefetch' = prefetch /\ cache' = cache]_vars
    /\ (appState = "SUMMARIZING") ~> (appState \in {"READY", "ERROR"})

\* The generation started by the card has made its briefing playable while
\* every background task, the category's included, still waits for its script.
C17_Witness ==
    /\ appState = "READY"
    /\ \E g \in Gens : gens[g].pc = "image" /\ audioBufferRef = GenBriefing(g)
    /\ \A c \in Categories : cache[c].status = "pending" /\ prefetch[c].pc = "script"

\* ------------------------------------------------------------ claims: transport
\* C18: once pauseAudio has stopped the node, no ended handler changes the
\* position: in READY with a stopped node a run of source.onended leaves the
\* saved offset as the pause committed it and appState READY.
C18_PausedOffsetKept ==
    [][(appState = "READY" /\ sourceNodeRef.state = "stopped"
          /\ (onendedCurrent \/ onendedDetached))
         => /\ savedBufferOffsetRef' = savedBufferOffsetRef
            /\ appState' = "READY"]_vars

\* C19: when the node playing the active buffer reaches the end and its ended
\* handler runs, the saved offset becomes 0 and appState READY, and a playAudio
\* that follows starts a node at offset 0.
C19_NaturalEndRewinds ==
    /\ [][onendedCurrent => (savedBufferOffsetRef' = 0 /\ appState' = "READY")]_vars
    /\ [][(playAudio /\ sourceNodeRef.state = "ended")
            => (sourceNodeRef'.pos = 0 /\ Live(sourceNodeRef'))]_vars

\* A buffer that was paused part-way, resumed and then played to its end.
C19_Witness ==
    /\ appState = "READY"
    /\ sourceNodeRef.state = "ended"
    /\ sourceNodeRef.pos = Duration(sourceNodeRef.buffer)
    /\ audioBufferRef = sourceNodeRef.buffer
    /\ segmentStartTimeRef > 0
    /\ savedBufferOffsetRef = 0

\* C20: reset leaves no started source playing, sets the saved offset to 0,
\* drops the active buffer, clears summary, sources and image and shows IDLE;
\* the history and the cache are as before.
C20_ResetClearsPlayer ==
    [][reset
         => /\ LiveSources' = 0
            /\ savedBufferOffsetRef' = 0
            /\ audioBufferRef' = 0
            /\ summary' = 0 /\ sources' = 0 /\ imageUrl' = 0
            /\ appState' = "IDLE"
            /\ history' = history /\ cache' = cache]_vars

C22_ActivationRewinds ==
    /\ [][(\/ \E g \in Gens : GenSpeechOk(g)
           \/ \E c \in Categories : handleCategorySelect(c) /\ cache[c].status = "ready"
           \/ loadHistoryItem)
            => (savedBufferOffsetRef' = 0 /\ audioBufferRef' # 0)]_vars
    /\ [][(playAudio /\ sourceNodeRef'.pos # 0)
            => sourceNodeRef.buffer = audioBufferRef]_vars

\* A buffer was paused part-way and then another buffer was activated: the
\* stopped node of the first still shows its position, the saved offset is 0.
C22_Witness ==
    /\ appState = "READY"
    /\ sourceNodeRef.state = "stopped" /\ sourceNodeRef.pos > 0
    /\ audioBufferRef # 0 /\ audioBufferRef # sourceNodeRef.buffer
    /\ savedBufferOffsetRef = 0

\* ------------------------------------------------------------ claims: concurrency
\* C23: a step of the background task of a category leaves the entry of every
\* other category as it is, whatever the other tasks and the user's generation
\* are doing, and the steps of a user's generation leave the whole cache as it is.
C23_TasksWriteOwnEntry ==
    [][/\ \A c \in Categories :
            (\/ PrefetchScriptOk(c) \/ PrefetchSpeechOk(c) \/ PrefetchFail(c)
             \/ \E r \in ImageResults : PrefetchImageThen(c, r))
              => \A d \in Categories \ {c} : cache'[d] = cache[d]
       /\ (\/ \E c \in Categories : handleCategorySelect(c)
           \/ \E g \in Gens :
                 \/ GenScriptOk(g) \/ GenScriptFail(g)
                 \/ GenSpeechOk(g) \/ GenSpeechFail(g)
                 \/ \E r \in ImageResults : GenImageThen(g, r))
            => cache' = cache]_vars

\* While a user's generation waited for its speech, one background task
\* completed with its image and another one failed.
C23_Witness ==
    \E c, d \in Categories :
        /\ cache[c].status = "ready" /\ cache[c].imageUrl = c
        /\ cache[d].status = "error"
        /\ \E g \in Gens : gens[g].pc = "speech"

\* C24: within a generation and within a background task the speech and image
\* calls are in flight only once the script call has succeeded (a task enters
\* that stage from the script stage, by the step that stores the script, and an
\* image call settles only in or after it), and while the speech call runs
\* both calls are in flight: the speech call can complete whether or not the
\* image call has settled, and the image call can settle before it.
C24_SpeechAndImageConcurrent ==
    /\ [][/\ \A g \in Gens :
                (gens'[g].pc = "speech" /\ gens[g].pc # "speech")
                  => (gens[g].pc = "script" /\ GenScriptOk(g))
           /\ \A c \in Categories :
                (prefetch'[c].pc = "speech" /\ prefetch[c].pc # "speech")
                  => (prefetch[c].pc = "script" /\ PrefetchScriptOk(c))]_vars
    /\ [](\A g \in Gens :
            /\ GenTask(g) \in imageSettled => gens[g].pc \notin {"none", "script"}
            /\ gens[g].pc = "speech"
                 => /\ ENABLED GenSpeechOk(g)
                    /\ GenTask(g) \notin imageSettled => ENABLED GenImageSettles(g))
    /\ [](\A c \in Categories :
            /\ PrefetchTask(c) \in imageSettled => prefetch[c].pc \notin {"none", "script"}
            /\ prefetch[c].pc = "speech"
                 => /\ ENABLED PrefetchSpeechOk(c)
                    /\ PrefetchTask(c) \notin imageSettled
                         => ENABLED PrefetchImageSettles(c))

\* Both completion orders: the image call of a generation settled before its
\* speech call resolved, and the speech call of a background task resolved
\* before its image call settled.
C24_Witness ==
    /\ \E g \in Gens : gens[g].pc = "image" /\ GenTask(g) \in imageSettled
    /\ \E c \in Categories : prefetch[c].pc = "image" /\ PrefetchTask(c) \notin imageSettled

\* C25: in READY and in PLAYING the summary, the sources, the cover image (when
\* there is one) and the active audio buffer are those of one briefing.
C25_OneBriefingShown ==
    appState \in {"READY", "PLAYING"}
      => /\ summary = audioBufferRef
         /\ sources = audioBufferRef
         /\ imageUrl # 0 => imageUrl = audioBufferRef

\* C26: appState agrees with the audio output: outside PLAYING no started
\* source is live, and in PLAYING the source held by sourceNodeRef was started
\* on the active buffer and is playing it (or has just reached its end, its
\* ended handler being due).
C26_StateMatchesOutput ==
    /\ appState # "PLAYING" => LiveSources = 0
    /\ appState = "PLAYING"
         => /\ sourceNodeRef.state \in {"playing", "finished"}
            /\ sourceNodeRef.buffer = audioBufferRef

\* C27: the ids of the history entries are pairwise distinct, whatever fresh
\* generations, cache hits (the same category again included) and deletions
\* have happened.
C27_HistoryIdsDistinct ==
    \A i, j \in 1..Len(history) : i # j => history[i].id # history[j].id

\* The history holds the entry of a fresh generation between the entries of
\* two cache hits, after the category of the older one was selected again.
C27_Witness ==
    /\ Len(history) = 3
    /\ history[1].id[1] = 1 /\ history[2].id[1] = 0 /\ history[3].id[1] = 1
    /\ appState = "READY"
    /\ audioBufferRef = history[3].audioBuffer

====
